---- MODULE Spec2Model ----
(***************************************************************************)
(* Model of package shorterr (src/shorterr.go): short-circuit error        *)
(* handling built on Go's panic / defer / recover.                         *)
(*                                                                         *)
(* Go values are records tagged with their dynamic type.  A Go string is   *)
(* a sequence of one-character strings.  A call of a library function is   *)
(* an operator that yields an outcome: either the values it returns or the *)
(* value it panics with.  The state machine runs a stack of client         *)
(* functions (the shape of the functions in src/shorterr_test.go: named    *)
(* outputs "a" and "err", PassTo deferred first) whose bodies choose their *)
(* statements nondeterministically.                                        *)
(***************************************************************************)
EXTENDS Integers, Sequences, FiniteSets, TLC

VARIABLES stack,      \* call stack of client functions, innermost last
          panicking,  \* the value of the panic in flight, Nil when none
          result,     \* what the caller of the outermost function observed
          steps,      \* number of statements executed so far
          last        \* history variable: the step taken last

vars == <<stack, panicking, result, steps, last>>

----------------------------------------------------------------------------
(* Bounds of the model *)

MaxDepth == 2
MaxSteps == 3
MaxAnnotations == 2

----------------------------------------------------------------------------
(* Go values *)

\* nil: the nil error, and what recover() yields when no panic is in flight
Nil == [type |-> "nil"]

\* a Go string literal of one character
Str(c) == <<c>>

\* an error made by the program before it calls the library (errFunc in the
\* tests); ptr is the pointer identity, so that two errors with the same
\* message are still two errors
ErrFailed(p) == [type |-> "errorString", s |-> Str("e"), ptr |-> p]

BaseErrors == {ErrFailed(1), ErrFailed(2)}

\* errors.New(msg); the library's own allocations are not told apart
New(msg) == [type |-> "errorString", s |-> msg, ptr |-> 0]

\* err.Error()
Error(err) ==
    CASE err.type = "errorString" -> err.s
      [] err.type = "wrapError" -> err.msg
      [] err.type = "runtimeError" -> err.s

\* errors.Unwrap(err)
Unwrap(err) == IF err.type = "wrapError" THEN err.err ELSE Nil

\* fmt.Errorf("%s: %w", msg, err)
Errorf(msg, err) ==
    [type |-> "wrapError", msg |-> msg \o <<":", " ">> \o Error(err), err |-> err]

\* strings.Join(elems, sep)
RECURSIVE Join(_, _)
Join(elems, sep) ==
    IF Len(elems) = 0 THEN <<>>
    ELSE IF Len(elems) = 1 THEN elems[1]
    ELSE elems[1] \o sep \o Join(Tail(elems), sep)

\* the conversion shortCircuitError(err): an interface-to-interface conversion
\* keeps the dynamic type and value of err
shortCircuitError(err) == err

\* the type assertion v.(shortCircuitError): shortCircuitError is an interface
\* type with error's method set, so it holds of every value whose dynamic type
\* has an Error() string method
IsShortCircuitError(v) == v.type \in {"errorString", "wrapError", "runtimeError"}

----------------------------------------------------------------------------
(* Outcomes of a call *)

Returns(vals) == [panic |-> Nil, ret |-> vals]
Panics(v) == [panic |-> v, ret |-> <<>>]

----------------------------------------------------------------------------
(* The library: src/shorterr.go *)

\* PassTo that assigns the result of the type assertion without testing it:
\* *err, _ = recover().(shortCircuitError)
PassToAlwaysWrites(err, v) ==
    IF v # Nil /\ ~IsShortCircuitError(v)
    THEN [err |-> Nil, panic |-> v]
    ELSE [err |-> v, panic |-> Nil]

\* PassTo that inspects the panic without a recover() of its own effect: the
\* panic is never stopped
PassToNoRecover(err, v) == [err |-> err, panic |-> v]

\* PassTo that stores the error and then panics again in every case
PassToRepanics(err, v) ==
    IF v # Nil
    THEN IF IsShortCircuitError(v)
         THEN [err |-> v, panic |-> v]
         ELSE [err |-> err, panic |-> v]
    ELSE [err |-> err, panic |-> Nil]

\* func PassTo(err *error), run as a deferred call.  err is the value of the
\* variable the pointer names, v is what recover() yields (Nil when no panic is
\* in flight; recover() stops the panic).  Yields the new value of *err and the
\* value PassTo panics with (Nil when it returns normally).
PassTo(err, v) ==
    IF v # Nil
    THEN IF IsShortCircuitError(v)
         THEN [err |-> v, panic |-> Nil]
         ELSE [err |-> err, panic |-> v]
    ELSE [err |-> err, panic |-> Nil]

\* Check without the test len(msg) > 0: it wraps in every case
CheckAlwaysWraps(err, msg) ==
    IF err # Nil
    THEN Panics(shortCircuitError(Errorf(Join(msg, Str(" ")), err)))
    ELSE Returns(<<>>)

\* Check that formats err with %v where the code has %w: the message is the
\* same, the cause is lost
CheckFormatsV(err, msg) ==
    IF err # Nil
    THEN LET joined == Join(msg, Str(" "))
         IN IF Len(joined) > 0
            THEN Panics(shortCircuitError(
                     [type |-> "wrapError",
                      msg |-> joined \o <<":", " ">> \o Error(err),
                      err |-> Nil]))
            ELSE Panics(shortCircuitError(err))
    ELSE Returns(<<>>)

\* func Check(err error, msg ...string)
Check(err, msg) ==
    IF err # Nil
    THEN LET joined == Join(msg, Str(" "))
         IN IF Len(joined) > 0
            THEN Panics(shortCircuitError(Errorf(joined, err)))
            ELSE Panics(shortCircuitError(err))
    ELSE Returns(<<>>)

\* Assert that says in the message where the error comes from
AssertPrefixed(ok, msg) ==
    IF ~ok
    THEN Panics(shortCircuitError(New(<<"a", ":", " ">> \o msg)))
    ELSE Returns(<<>>)

\* func Assert(ok bool, msg string)
AssertFn(ok, msg) ==
    IF ~ok
    THEN Panics(shortCircuitError(New(msg)))
    ELSE Returns(<<>>)

\* the statement "return x" that follows a call of Check: reached only when
\* Check returned
Then(checked, vals) == IF checked.panic # Nil THEN checked ELSE Returns(vals)

\* Try without its call of Check
TryNoCheck(a, err) == Returns(<<a>>)

\* func Try[A any](a A, err error) A
Try(a, err) == Then(Check(err, <<>>), <<a>>)

\* func Try2
Try2(a, b, err) == Then(Check(err, <<>>), <<a, b>>)

\* func Try3
Try3(a, b, c, err) == Then(Check(err, <<>>), <<a, b, c>>)

\* func Try4
Try4(a, b, c, d, err) == Then(Check(err, <<>>), <<a, b, c, d>>)

\* Try5 that returns two of its values in each other's place
Try5Swapped(a, b, c, d, e, err) == Then(Check(err, <<>>), <<a, b, c, e, d>>)

\* func Try5
Try5(a, b, c, d, e, err) == Then(Check(err, <<>>), <<a, b, c, d, e>>)

\* func Do[A any](a A, err error) *Result[A]
Do(a, err) == [a |-> a, err |-> err]

\* func Do2
Do2(a, b, err) == [a |-> a, b |-> b, err |-> err]

\* func Do3
Do3(a, b, c, err) == [a |-> a, b |-> b, c |-> c, err |-> err]

\* func Do4
Do4(a, b, c, d, err) == [a |-> a, b |-> b, c |-> c, d |-> d, err |-> err]

\* func Do5
Do5(a, b, c, d, e, err) == [a |-> a, b |-> b, c |-> c, d |-> d, e |-> e, err |-> err]

\* func (r *Result[A]) Or(msg string) A
Or(r, msg) == Then(Check(r.err, <<msg>>), <<r.a>>)

\* func (r *Result2[A, B]) Or(msg string) (A, B)
Or2(r, msg) == Then(Check(r.err, <<msg>>), <<r.a, r.b>>)

\* Or that calls Check without its msg
Or3DropsMsg(r, msg) == Then(Check(r.err, <<>>), <<r.a, r.b, r.c>>)

\* func (r *Result3[A, B, C]) Or(msg string) (A, B, C)
Or3(r, msg) == Then(Check(r.err, <<msg>>), <<r.a, r.b, r.c>>)

\* func (r *Result4[A, B, C, D]) Or(msg string) (A, B, C, D)
Or4(r, msg) == Then(Check(r.err, <<msg>>), <<r.a, r.b, r.c, r.d>>)

\* func (r *Result5[A, B, C, D, E]) Or(msg string) (A, B, C, D, E)
Or5(r, msg) == Then(Check(r.err, <<msg>>), <<r.a, r.b, r.c, r.d, r.e>>)

\* the call TryN(vals..., err) for the arity of vals
TryN(vals, err) ==
    CASE Len(vals) = 1 -> Try(vals[1], err)
      [] Len(vals) = 2 -> Try2(vals[1], vals[2], err)
      [] Len(vals) = 3 -> Try3(vals[1], vals[2], vals[3], err)
      [] Len(vals) = 4 -> Try4(vals[1], vals[2], vals[3], vals[4], err)
      [] Len(vals) = 5 -> Try5(vals[1], vals[2], vals[3], vals[4], vals[5], err)

\* the expression DoN(vals..., err).Or(msg) for the arity of vals
DoNOr(vals, err, msg) ==
    CASE Len(vals) = 1 -> Or(Do(vals[1], err), msg)
      [] Len(vals) = 2 -> Or2(Do2(vals[1], vals[2], err), msg)
      [] Len(vals) = 3 -> Or3(Do3(vals[1], vals[2], vals[3], err), msg)
      [] Len(vals) = 4 -> Or4(Do4(vals[1], vals[2], vals[3], vals[4], err), msg)
      [] Len(vals) = 5 -> Or5(Do5(vals[1], vals[2], vals[3], vals[4], vals[5], err), msg)

----------------------------------------------------------------------------
(* Client functions: func(...) (a []int, err error) { defer PassTo(&err); ... } *)

\* one-string messages passed as annotations
Messages == {<<>>, Str("m")}

\* the variadic msg ...string of Check
Annotations == UNION {[1..n -> Messages] : n \in 0..MaxAnnotations}

\* the arities of TryN and DoN
Arities == 1..5

\* results of the fallible function wrapped by TryN / DoN: pairwise distinct
\* values, for every arity
Tuples == {[i \in 1..n |-> i] : n \in Arities}

\* values a body assigns to its named output a
OutputValues == {<<7>>}

\* values of panics the library did not raise: panic("bla"), a runtime fault
\* (runtime.Error has an Error method), panic(someError)
OtherPanicValues ==
    {[type |-> "string", s |-> Str("b")],
     [type |-> "runtimeError", s |-> Str("r")],
     ErrFailed(1)}

\* a function at entry: named outputs hold their zero values
NewFrame(boundary) ==
    [pc |-> 0, a |-> <<>>, err |-> Nil, rerr |-> Nil, boundary |-> boundary]

Top == stack[Len(stack)]

Running == /\ stack # <<>>
           /\ panicking = Nil
           /\ steps < MaxSteps

\* the errors a body can hand to the library: nil, a fresh failure, or the
\* error the function it called last returned
ErrInputs == {Nil} \cup BaseErrors \cup {Top.rerr}

NoEvent == [kind |-> "none", op |-> "none"]

\* the record of a statement of the top function's body
Stmt(op, in) ==
    [kind |-> "stmt", op |-> op, in |-> in, depth |-> Len(stack),
     boundary |-> Top.boundary, pc0 |-> Top.pc, a0 |-> Top.a, err0 |-> Top.err]

\* the effect of a library call on the calling function: a panic leaves the
\* statement unfinished, a return completes it; assign says whether the
\* statement stores the returned values in a
Finish(outcome, assign) ==
    IF outcome.panic # Nil
    THEN /\ panicking' = outcome.panic
         /\ stack' = stack
    ELSE /\ panicking' = Nil
         /\ stack' = [stack EXCEPT ![Len(stack)] =
                [@ EXCEPT !.pc = @ + 1,
                          !.a = IF assign THEN outcome.ret ELSE @]]

\* history: how many calls Check(nil, ...) the top function has just made in a
\* row, the statement taken last included
NilRun ==
    IF last.kind = "stmt" /\ last.op = "Check" /\ last.depth = Len(stack)
    THEN last.in.run ELSE 0

Init ==
    /\ stack = <<NewFrame(TRUE)>>
    /\ panicking = Nil
    /\ result = [st |-> "running"]
    /\ steps = 0
    /\ last = NoEvent

\* shorterr.Check(err, msg...)
CallCheck ==
    /\ Running
    /\ \E err \in ErrInputs, msg \in Annotations :
            /\ Finish(Check(err, msg), FALSE)
            /\ last' = Stmt("Check", [err |-> err, msg |-> msg,
                                      run |-> IF err = Nil THEN NilRun + 1 ELSE 0,
                                      runErr |-> IF NilRun > 0 THEN last.in.runErr
                                                 ELSE Top.err])
            /\ steps' = steps + 1
            /\ UNCHANGED result

\* shorterr.Assert(ok, msg)
CallAssert ==
    /\ Running
    /\ \E ok \in BOOLEAN, msg \in Messages :
            /\ Finish(AssertFn(ok, msg), FALSE)
            /\ last' = Stmt("Assert", [ok |-> ok, msg |-> msg])
            /\ steps' = steps + 1
            /\ UNCHANGED result

\* a = argsToSlice(shorterr.TryN(f()))
CallTry ==
    /\ Running
    /\ \E vals \in Tuples, err \in ErrInputs :
            /\ Finish(TryN(vals, err), TRUE)
            /\ last' = Stmt("Try", [vals |-> vals, err |-> err])
            /\ steps' = steps + 1
            /\ UNCHANGED result

\* a = argsToSlice(shorterr.DoN(f()).Or(msg))
CallDoOr ==
    /\ Running
    /\ \E vals \in Tuples, err \in ErrInputs, msg \in Messages :
            /\ Finish(DoNOr(vals, err, msg), TRUE)
            /\ last' = Stmt("Or", [vals |-> vals, err |-> err, msg |-> msg])
            /\ steps' = steps + 1
            /\ UNCHANGED result

\* a = v
AssignA ==
    /\ Running
    /\ \E v \in OutputValues :
            /\ Finish(Returns(v), TRUE)
            /\ last' = Stmt("a=", [v |-> v])
            /\ steps' = steps + 1
            /\ UNCHANGED result

\* err = e
AssignErr ==
    /\ Running
    /\ \E e \in BaseErrors :
            /\ stack' = [stack EXCEPT ![Len(stack)] = [@ EXCEPT !.pc = @ + 1, !.err = e]]
            /\ last' = Stmt("err=", [v |-> e])
            /\ steps' = steps + 1
            /\ UNCHANGED <<panicking, result>>

\* panic(v) by the body itself, or a fault of the runtime
OtherPanic ==
    /\ Running
    /\ \E v \in OtherPanicValues :
            /\ panicking' = v
            /\ last' = Stmt("panic", [v |-> v])
            /\ steps' = steps + 1
            /\ UNCHANGED <<stack, result>>

\* _, rerr = g(): the call of another client function, with or without a
\* deferred PassTo
CallFunc ==
    /\ Running
    /\ \E boundary \in BOOLEAN :
            /\ Len(stack) < MaxDepth
            /\ stack' = Append(stack, NewFrame(boundary))
            /\ last' = Stmt("call", [boundary |-> boundary])
            /\ steps' = steps + 1
            /\ UNCHANGED <<panicking, result>>

\* the top function exits while v is what recover() would yield: its deferred
\* PassTo runs, then it either returns (a, err) to its caller or the panic goes
\* on in the caller
Exit(v) ==
    LET f == Top
        p == IF f.boundary THEN PassTo(f.err, v) ELSE [err |-> f.err, panic |-> v]
        rest == SubSeq(stack, 1, Len(stack) - 1)
        how == IF p.panic # Nil THEN "propagated"
               ELSE IF v # Nil THEN "recovered" ELSE "normal"
    IN /\ panicking' = p.panic
       /\ stack' = IF p.panic = Nil /\ rest # <<>>
                   THEN [rest EXCEPT ![Len(rest)] =
                            [@ EXCEPT !.pc = @ + 1, !.rerr = p.err]]
                   ELSE rest
       /\ result' = IF rest # <<>> THEN result
                    ELSE IF p.panic = Nil
                         THEN [st |-> "returned", a |-> f.a, err |-> p.err]
                         ELSE [st |-> "panicked", v |-> p.panic]
       /\ last' = [kind |-> "exit", op |-> "exit", how |-> how, depth |-> Len(stack),
                   boundary |-> f.boundary, v |-> v,
                   a0 |-> f.a, err0 |-> f.err, a1 |-> f.a, err1 |-> p.err,
                   caller |-> IF rest # <<>> THEN rest[Len(rest)] ELSE NoEvent,
                   cause |-> IF v = Nil THEN NoEvent
                             ELSE IF last.kind = "stmt" THEN last ELSE last.cause]

\* return
Return ==
    /\ stack # <<>>
    /\ panicking = Nil
    /\ Exit(Nil)
    /\ UNCHANGED steps

\* the runtime unwinds the top function because of the panic in flight
Unwind ==
    /\ stack # <<>>
    /\ panicking # Nil
    /\ Exit(panicking)
    /\ UNCHANGED steps

Next ==
    \/ CallCheck
    \/ CallAssert
    \/ CallTry
    \/ CallDoOr
    \/ AssignA
    \/ AssignErr
    \/ OtherPanic
    \/ CallFunc
    \/ Return
    \/ Unwind

Spec == Init /\ [][Next]_vars

----------------------------------------------------------------------------
(* Properties *)

RaiseOps == {"Check", "Assert", "Try", "Or"}

\* ev is a statement that called a raise primitive
IsRaise(ev) == ev.kind = "stmt" /\ ev.op \in RaiseOps

\* ev is a call of a raise primitive with a failing input
Fails(ev) ==
    /\ IsRaise(ev)
    /\ \/ ev.op = "Assert" /\ ~ev.in.ok
       \/ ev.op # "Assert" /\ ev.in.err # Nil

\* the step taken last is the exit of a function with a deferred PassTo in
\* whose own body the statement last.cause started the panic in flight
ExitOfRaiser ==
    /\ last.kind = "exit"
    /\ last.boundary
    /\ last.cause.kind = "stmt"
    /\ last.cause.depth = last.depth

\* what the caller of the function that exited last got back as error
DeliveredErr == IF stack = <<>> THEN result.err ELSE Top.rerr

\* the function whose statement was taken last is still on top, that
\* statement completed, its outputs as before
Continues ==
    /\ panicking = Nil
    /\ Len(stack) = last.depth
    /\ Top.pc = last.pc0 + 1
    /\ Top.err = last.err0

\* the function whose statement was taken last is still on top, that
\* statement left unfinished by a panic, its outputs as before
Interrupted ==
    /\ panicking # Nil
    /\ Len(stack) = last.depth
    /\ Top.pc = last.pc0
    /\ Top.a = last.a0
    /\ Top.err = last.err0

ColonSpace == <<":", " ">>

\* C1: a panic that no raise primitive started, raised in a function with a
\* deferred PassTo, is not turned into the function's error output and is not
\* stopped, whatever its value (an error value included): PassTo leaves *err
\* alone, the panic goes on with the same value, and the handler around the
\* outermost call observes that value.
C1_OtherPanicPropagates ==
    (/\ last.kind = "exit"
     /\ last.boundary
     /\ last.cause.kind = "stmt"
     /\ last.cause.op = "panic")
    => /\ last.how = "propagated"
       /\ last.err1 = last.err0
       /\ panicking = last.cause.in.v
       /\ stack = <<>> => result = [st |-> "panicked", v |-> last.cause.in.v]

\* C1, the part the code keeps: a panic whose value has no Error method passes
\* every PassTo untouched.
C1_NonErrorPanicPropagates ==
    (/\ last.kind = "exit"
     /\ last.boundary
     /\ last.cause.kind = "stmt"
     /\ last.cause.op = "panic"
     /\ last.cause.in.v.type = "string")
    => /\ last.how = "propagated"
       /\ last.err1 = last.err0
       /\ panicking = last.cause.in.v
       /\ stack = <<>> => result = [st |-> "panicked", v |-> last.cause.in.v]

\* C2: in a function with a deferred PassTo, Check(err) without annotation
\* returns when err is nil, and the function goes on and returns its outputs
\* as the body left them; when err is not nil the function returns with its
\* error output equal to err itself.
C2_CheckNoAnnotation ==
    /\ (/\ last.kind = "stmt" /\ last.op = "Check" /\ last.boundary
        /\ last.in.msg = <<>> /\ last.in.err = Nil)
       => Continues /\ Top.a = last.a0
    /\ (/\ last.kind = "stmt" /\ last.op = "Check" /\ last.boundary
        /\ last.in.msg = <<>> /\ last.in.err # Nil)
       => Interrupted /\ panicking = last.in.err
    /\ (last.kind = "exit" /\ last.boundary /\ last.how = "normal")
       => /\ panicking = Nil
          /\ DeliveredErr = last.err0
          /\ stack = <<>> => result = [st |-> "returned", a |-> last.a0, err |-> last.err0]
    /\ (/\ ExitOfRaiser /\ last.cause.op = "Check"
        /\ last.cause.in.msg = <<>> /\ last.cause.in.err # Nil)
       => /\ last.how = "recovered"
          /\ panicking = Nil
          /\ last.err1 = last.cause.in.err
          /\ DeliveredErr = last.cause.in.err

C2_Witness ==
    /\ ExitOfRaiser /\ last.cause.op = "Check"
    /\ last.cause.in.msg = <<>> /\ last.cause.in.err = ErrFailed(1)
    /\ stack = <<>>
    /\ result.st = "returned" /\ result.err = ErrFailed(1)

\* C3 as stated: for every arity, every msg (the empty string included) and
\* every non-nil err, a function with a deferred PassTo that evaluates
\* DoN(values..., err).Or(msg) returns an error whose message is
\* msg + ": " + err.Error().
C3_OrMessageAnyMsg ==
    (ExitOfRaiser /\ last.cause.op = "Or" /\ last.cause.in.err # Nil)
    => /\ last.how = "recovered"
       /\ Error(DeliveredErr) = last.cause.in.msg \o ColonSpace \o Error(last.cause.in.err)

\* C3 amended: the message is msg + ": " + err.Error() when msg is not empty,
\* and the returned error wraps err; with the empty msg the function returns
\* err itself, whose message is err.Error().
C3_OrMessage ==
    (ExitOfRaiser /\ last.cause.op = "Or" /\ last.cause.in.err # Nil)
    => /\ last.how = "recovered"
       /\ IF last.cause.in.msg # <<>>
          THEN /\ Error(DeliveredErr) =
                     last.cause.in.msg \o ColonSpace \o Error(last.cause.in.err)
               /\ Unwrap(DeliveredErr) = last.cause.in.err
          ELSE DeliveredErr = last.cause.in.err

C3_Witness ==
    /\ ExitOfRaiser /\ last.cause.op = "Or" /\ last.cause.in.err # Nil
    /\ Len(last.cause.in.vals) = 3
    /\ last.cause.in.msg = Str("m")
    /\ stack = <<>>
    /\ Error(result.err) = <<"m", ":", " ", "e">>

\* C4: in a function with a deferred PassTo, Assert(false, msg) stops the
\* function, which returns an error whose message is exactly msg and which
\* wraps nothing; Assert(true, msg) raises nothing, leaves the outputs alone
\* and lets the function go on with the next statement.
C4_Assert ==
    /\ (last.kind = "stmt" /\ last.op = "Assert" /\ last.boundary /\ last.in.ok)
       => Continues /\ Top.a = last.a0
    /\ (last.kind = "stmt" /\ last.op = "Assert" /\ last.boundary /\ ~last.in.ok)
       => Interrupted
    /\ (ExitOfRaiser /\ last.cause.op = "Assert" /\ ~last.cause.in.ok)
       => /\ last.how = "recovered"
          /\ panicking = Nil
          /\ Error(DeliveredErr) = last.cause.in.msg
          /\ Unwrap(DeliveredErr) = Nil

C4_Witness ==
    /\ ExitOfRaiser /\ last.cause.op = "Assert" /\ ~last.cause.in.ok
    /\ last.cause.in.msg = Str("m")
    /\ stack = <<>>
    /\ result.st = "returned" /\ Error(result.err) = Str("m")

\* C5: for every arity 1..5, TryN called with a nil error returns its values
\* unchanged and in order, and raises nothing.
C5_TryPassThrough ==
    (last.kind = "stmt" /\ last.op = "Try" /\ last.in.err = Nil)
    => Continues /\ Top.a = last.in.vals

C5_Witness ==
    /\ last.kind = "stmt" /\ last.op = "Try" /\ last.in.err = Nil
    /\ last.in.vals = <<1, 2, 3, 4, 5>>
    /\ Top.a = <<1, 2, 3, 4, 5>>

\* the annotations separated by single spaces, built from the last one back
RECURSIVE SpaceJoined(_)
SpaceJoined(msg) ==
    IF msg = <<>> THEN <<>>
    ELSE LET front == SubSeq(msg, 1, Len(msg) - 1)
         IN IF front = <<>> THEN msg[Len(msg)]
            ELSE SpaceJoined(front) \o <<" ">> \o msg[Len(msg)]

\* C6: Check with a non-nil err raises a signal that carries, when the
\* annotations joined by single spaces are not empty, an error with the
\* message joined + ": " + err.Error() whose direct cause is err, and err
\* itself when the joined string is empty.
C6_CheckAnnotations ==
    (last.kind = "stmt" /\ last.op = "Check" /\ last.in.err # Nil)
    => /\ panicking # Nil
       /\ IF SpaceJoined(last.in.msg) # <<>>
          THEN /\ Error(panicking) =
                     SpaceJoined(last.in.msg) \o ColonSpace \o Error(last.in.err)
               /\ Unwrap(panicking) = last.in.err
          ELSE panicking = last.in.err

C6_Witness ==
    /\ last.kind = "stmt" /\ last.op = "Check" /\ last.in.err = ErrFailed(1)
    /\ last.in.msg = <<Str("m"), Str("m")>>
    /\ Error(panicking) = <<"m", " ", "m", ":", " ", "e">>

\* C7 as stated: when a raise primitive fails in a function with a deferred
\* PassTo, every non-error output of the function holds its zero value when
\* the function returns, whatever the body assigned before.
C7_ZeroOutputs ==
    (ExitOfRaiser /\ Fails(last.cause))
    => /\ last.a1 = <<>>
       /\ stack = <<>> => result.a = <<>>

\* C7 amended: the failing call assigns nothing and PassTo writes only the
\* error output, so the function returns its non-error output as it was when
\* the failing call was made: the zero value when the body had assigned
\* nothing, the assigned value otherwise.
C7_OutputsKept ==
    /\ (Fails(last) /\ last.boundary) => Interrupted
    /\ (ExitOfRaiser /\ Fails(last.cause))
       => /\ last.how = "recovered"
          /\ last.a1 = last.cause.a0
          /\ stack = <<>> => result.st = "returned" /\ result.a = last.cause.a0
          /\ last.cause.pc0 = 0 => last.a1 = <<>>

C7_Witness ==
    /\ ExitOfRaiser /\ Fails(last.cause)
    /\ last.cause.op = "Try"
    /\ last.cause.a0 = <<7>>
    /\ stack = <<>>
    /\ result.a = <<7>>

\* C8: Check(nil), with or without annotations, called any number of times in
\* a row raises nothing and leaves the error output as it was before the
\* first call; a function that exits with no panic in flight returns its
\* error output as the body left it.
C8_CheckNil ==
    /\ (last.kind = "stmt" /\ last.op = "Check" /\ last.in.err = Nil)
       => /\ Continues
          /\ last.in.run >= 1
          /\ Top.err = last.in.runErr
    /\ (last.kind = "exit" /\ last.v = Nil)
       => /\ last.how = "normal"
          /\ panicking = Nil
          /\ last.err1 = last.err0
          /\ DeliveredErr = last.err0

C8_Witness ==
    /\ last.kind = "stmt" /\ last.op = "Check" /\ last.in.err = Nil
    /\ last.in.msg # <<>>
    /\ last.in.run >= 2
    /\ last.in.runErr # Nil
    /\ Top.err = last.in.runErr

\* C9: once a raise primitive fails in a function with a deferred PassTo, the
\* failing statement stays unfinished and no other statement of the function
\* runs: the next step is the function's exit, in which PassTo writes the
\* carried error to the error output and stops the panic, and the function
\* returns that error to its caller.
C9_ShortCircuit ==
    /\ []((Fails(last) /\ last.boundary) => Interrupted)
    /\ [][(Fails(last) /\ last.boundary)
          => /\ last'.kind = "exit"
             /\ last'.depth = last.depth
             /\ last'.how = "recovered"
             /\ last'.err1 = panicking
             /\ last'.a1 = last.a0
             /\ panicking' = Nil
             /\ Len(stack') = last.depth - 1
             /\ IF stack' = <<>>
                THEN result' = [st |-> "returned", a |-> last.a0, err |-> panicking]
                ELSE /\ stack'[Len(stack')].rerr = panicking
                     /\ result' = result]_vars

C9_Witness ==
    /\ ExitOfRaiser /\ Fails(last.cause)
    /\ last.cause.op = "Or"
    /\ last.how = "recovered"
    /\ stack # <<>>
    /\ Top.rerr = last.err1
    /\ panicking = Nil

\* C10: a signal raised by a raise primitive is consumed by the nearest
\* function on the call stack that deferred PassTo and by no other: it passes
\* the functions without PassTo, stops at the first with it, never reaches the
\* caller of the outermost function, and the caller of the consuming function
\* gets an ordinary error value back, its own outputs unwritten and its body
\* going on.
C10_NearestBoundary ==
    (last.kind = "exit" /\ IsRaise(last.cause))
    => /\ last.boundary
          => /\ last.how = "recovered"
             /\ panicking = Nil
             /\ last.err1 = last.v
       /\ ~last.boundary
          => /\ last.how = "propagated"
             /\ panicking = last.v
             /\ stack # <<>>
             /\ last.depth <= last.cause.depth
       /\ result.st # "panicked"
       /\ (last.how = "recovered" /\ stack # <<>>)
          => /\ Top.err = last.caller.err
             /\ Top.a = last.caller.a
             /\ Top.pc = last.caller.pc + 1
             /\ Top.rerr = last.v

C10_Witness ==
    /\ last.kind = "exit" /\ IsRaise(last.cause)
    /\ last.how = "recovered"
    /\ stack # <<>>
    /\ Top.boundary
    /\ Top.err = Nil
    /\ Top.rerr = last.v
    /\ panicking = Nil

====
